---- MODULE Spec2Model ----
(***************************************************************************)
(* Model of backend/app/payment.py (PaymentService: the in-memory payment  *)
(* session store and the download-token map) together with the download   *)
(* endpoint of backend/app/main.py that redeems a token.                   *)
(*                                                                         *)
(* The service runs on one asyncio event loop: code between two awaits is  *)
(* atomic, and a handler that awaits the payment gateway or the scanner is *)
(* split into the step up to the await and the step after it.  A handler   *)
(* suspended at its await occupies one entry of `calls`.                   *)
(*                                                                         *)
(* Time is in seconds.  datetime.now() is the variable `now`; completed_at *)
(* and created_at hold the value of `now` at the line that set them.  The  *)
(* clock moves in steps of LongTick; a step stands for any lapse of time   *)
(* that carries the clock to the next instant at which an expiry test can  *)
(* change its answer, so a step taken while a handler is suspended stands  *)
(* for the seconds its await takes.                                        *)
(*                                                                         *)
(* Spec drives the methods of PaymentService and the download endpoint.    *)
(* SpecPayment drives the endpoints of a purchase, with the rendering and  *)
(* email stage that verify_payment (main.py) runs after verify_session.    *)
(* SpecScore is the score computation of backend/app/scanner.py            *)
(* (calculate_score) and backend/app/scanner_subprocess.py (scan_url_sync) *)
(* applied to the findings of one scan, with the summary and the risk      *)
(* level of the report and the level the email and the PDF cover show.     *)
(* SpecScan is one run of scan_url or scan_url_sync statement by           *)
(* statement, with the browser it launches and the failures of each step.  *)
(***************************************************************************)
EXTENDS Integers, FiniteSets, Sequences, Bags, TLC

\* ---------------------------------------------------------------- bounds
\* Sessions ever stored, tokens ever minted, handlers suspended at once.
MaxSessions == 2
MaxTokens == 2
MaxCalls == 2
\* The clock advances in steps of LongTick seconds, this many times at most,
\* and at most MaxAwaitTicks of them while a handler is suspended at an await.
MaxLongTicks == 5
MaxAwaitTicks == 1
\* Findings of a scan: rule-engine violations, interactive checks, and the
\* largest number of nodes (instances) of a finding.
MaxViolations == 3
MaxChecks == 2
MaxNodes == 6

\* ------------------------------------------------------ program constants
\* Python's None (payment.py: "completed_at": None, "pdf_token": None).
None == -1
\* get_session_by_token: `if elapsed > 1800:  # 30 minutes`.
TOKEN_TTL == 1800
\* _cleanup_expired: `cutoff = 7200  # 2 hours in seconds`.
cutoff == 7200

LongTick == TOKEN_TTL
MaxTime == MaxLongTicks * LongTick

SessionIds == 1..MaxSessions
TokenIds == 1..MaxTokens

VARIABLES
    now,        \* datetime.now(timezone.utc), seconds
    demo_mode,  \* PaymentService.demo_mode, fixed at construction
    sessions,   \* PaymentService._sessions : session_id -> session dict
    tokens,     \* PaymentService._tokens   : pdf_token -> session_id
    calls,      \* the bag of handlers suspended at an await
    nextSid,    \* next fresh session id  (secrets.token_hex)
    nextTok,    \* next fresh pdf token   (secrets.token_urlsafe)
    last,       \* the response of the handler that returned last
    awaited,    \* clock steps taken so far while a handler was suspended
    issued,     \* history: pdf_token -> [sid, at] for every token minted
    axe_results,        \* scan: axe_results["violations"], [impact, nodes] each
    playwright_results, \* scan: the interactive checks, [severity, nodes_count] each
    score,              \* scan: the "score" of the report, None before the scan
    report,     \* scan: the "summary" and the risk keys of the report
    delivered,  \* send-report: the risk level the email and the PDF cover show
    scan        \* scan: where one run of the scanner stands, and its browser

scan_vars == <<axe_results, playwright_results, score, report, delivered, scan>>

payment_vars == <<now, demo_mode, sessions, tokens, calls, nextSid, nextTok,
                  last, awaited, issued>>

vars == <<now, demo_mode, sessions, tokens, calls, nextSid, nextTok, last,
          awaited, issued, axe_results, playwright_results, score, report,
          delivered, scan>>

\* No report assembled yet.  A report has "summary" and, from scan_url
\* (scanner.py:88), the key "legal_risk" or, from scan_url_sync
\* (scanner_subprocess.py:208), the key "risk"; a key the dict does not have
\* is "absent" here.
NoReport ==
    [summary |-> [critical |-> 0, serious |-> 0, moderate |-> 0, minor |-> 0],
     legal_risk |-> "absent", risk |-> "absent"]

\* Nothing sent yet.
NoDelivery == [email |-> "none", cover |-> "none"]

\* No scan started: scan_url / scan_url_sync not entered, no browser.
NoScan ==
    [fn |-> "none", pc |-> "idle", browser |-> "none", check |-> 0,
     ran |-> {}, raised |-> {}, found |-> {}, exit |-> "none"]

NoResponse ==
    [op |-> "none", status |-> "none", pdf_token |-> None, demo_mode |-> "absent"]

\* The demo_mode key of a returned record.  create_session returns
\* self.demo_mode (line 105); verify_session returns session["demo_mode"], the
\* copy of self.demo_mode made at line 86, in its completed and pending records
\* (lines 123, 147, 155) and has no such key in its not_found record (line 114).
\* handle_webhook returns a bool, the download endpoint a file.
demo_flag(op, status) ==
    IF \/ op = "create_session" /\ status = "created"
       \/ op = "verify_session" /\ status \in {"completed", "pending"}
    THEN IF demo_mode THEN "true" ELSE "false"
    ELSE "absent"

\* What a method returned: its name, its answer, the token in the answer and
\* the demo_mode key of the answer.
Response(op, status, tok) ==
    [op |-> op, status |-> status, pdf_token |-> tok,
     demo_mode |-> demo_flag(op, status)]

\* A handler suspended at its await, with the locals it holds: the session it
\* looked up, the token it was given, the created_at of the dict it built.
Suspended(op, sid, tok, t) == [op |-> op, sid |-> sid, tok |-> tok, at |-> t]

Suspend(c) == calls (+) SetToBag({c})
Resume(c) == calls (-) SetToBag({c})
Running == BagToSet(calls)
CanSuspend == BagCardinality(calls) < MaxCalls

\* ------------------------------------------------------------ constructor
\* PaymentService.__init__: empty maps; demo_mode from the environment.
Init ==
    /\ now = 0
    /\ demo_mode \in BOOLEAN
    /\ sessions = <<>>
    /\ tokens = <<>>
    /\ calls = EmptyBag
    /\ nextSid = 1
    /\ nextTok = 1
    /\ last = NoResponse
    /\ awaited = 0
    /\ issued = <<>>
    /\ axe_results = <<>>
    /\ playwright_results = <<>>
    /\ score = None
    /\ report = NoReport
    /\ delivered = NoDelivery
    /\ scan = NoScan

\* ---------------------------------------------------------------- helpers
\* A function without the keys in `ks` (dict.pop / del on each of them).
Without(f, ks) == [k \in DOMAIN f \ ks |-> f[k]]

\* create_session, lines 73-87: the session dict as first built.
new_session(created) ==
    [status |-> "pending", meshulam_process_id |-> None, created_at |-> created,
     completed_at |-> None, pdf_token |-> None, pdf_bytes |-> FALSE]

\* _cleanup_expired, line 357: `if elapsed > cutoff`.
session_expired(elapsed) == elapsed > cutoff

\* A sweep that spares the sessions that never completed.
expired_ids_completed_only(t) ==
    {sid \in DOMAIN sessions :
        /\ session_expired(t - sessions[sid].created_at)
        /\ sessions[sid].status = "completed"}

\* _cleanup_expired, lines 352-360: the ids collected in `expired`.
expired_ids(t) ==
    {sid \in DOMAIN sessions : session_expired(t - sessions[sid].created_at)}

\* _cleanup_expired, lines 362-366: the tokens popped with the sessions, the
\* pdf_token field of each popped session when it is set.
expired_tokens(t) ==
    {sessions[sid].pdf_token : sid \in {x \in expired_ids(t) : sessions[x].pdf_token # None}}

\* _cleanup_expired: the store and the token map it leaves.
cleanup_sessions(t) == Without(sessions, expired_ids(t))
cleanup_tokens(t) == Without(tokens, expired_tokens(t))

\* verify_session, line 117: `session["status"] == "completed" and session["pdf_token"]`.
already_completed(session) ==
    session.status = "completed" /\ session.pdf_token # None

\* A verify_session that mints the token and leaves the status as it was.
verify_complete_keeps_status(session, tok, t) ==
    [session EXCEPT !.completed_at = t, !.pdf_token = tok]

\* verify_session, lines 135-137: the three fields written on success.
verify_complete(session, tok, t) ==
    [session EXCEPT !.status = "completed", !.completed_at = t, !.pdf_token = tok]

\* A handle_webhook that forgets to stamp completed_at.
webhook_complete_unstamped(session, tok, t) ==
    [session EXCEPT !.status = "completed", !.pdf_token = tok]

\* handle_webhook, lines 223-225: the three fields written on success.
webhook_complete(session, tok, t) ==
    [session EXCEPT !.status = "completed", !.completed_at = t, !.pdf_token = tok]

\* A handle_webhook that completes the session on every success notification.
webhook_always_completes(session) == TRUE

\* handle_webhook, line 221: `if session["status"] != "completed"`.
webhook_should_complete(session) == session.status # "completed"

\* A window that closes at the 1800th second instead of after it.
token_expired_at_boundary(elapsed) == elapsed >= TOKEN_TTL

\* get_session_by_token, line 181: `if elapsed > 1800`.
token_expired(elapsed) == elapsed > TOKEN_TTL

\* A lookup that uses the token up when it succeeds.
get_session_by_token_one_time(tok) ==
    IF tok \notin DOMAIN tokens
    THEN [session |-> None, drop |-> FALSE]
    ELSE LET sid == tokens[tok] IN
         IF sid \notin DOMAIN sessions
         THEN [session |-> None, drop |-> FALSE]
         ELSE IF sessions[sid].status # "completed"
         THEN [session |-> None, drop |-> FALSE]
         ELSE IF /\ sessions[sid].completed_at # None
                 /\ token_expired(now - sessions[sid].completed_at)
         THEN [session |-> None, drop |-> TRUE]
         ELSE [session |-> sid, drop |-> TRUE]

\* get_session_by_token, lines 164-188: the session id it returns (None for
\* not-found) and whether it deletes the token's entry (line 183).
get_session_by_token(tok) ==
    IF tok \notin DOMAIN tokens
    THEN [session |-> None, drop |-> FALSE]
    ELSE LET sid == tokens[tok] IN
         IF sid \notin DOMAIN sessions
         THEN [session |-> None, drop |-> FALSE]
         ELSE IF sessions[sid].status # "completed"
         THEN [session |-> None, drop |-> FALSE]
         ELSE IF /\ sessions[sid].completed_at # None
                 /\ token_expired(now - sessions[sid].completed_at)
         THEN [session |-> None, drop |-> TRUE]
         ELSE [session |-> sid, drop |-> FALSE]

\* A store_pdf that caches nothing.
store_pdf_dropped(sid) == sessions

\* store_pdf, lines 190-194: cache the bytes when the session is still stored.
store_pdf(sid) ==
    IF sid \in DOMAIN sessions
    THEN [sessions EXCEPT ![sid].pdf_bytes = TRUE]
    ELSE sessions

\* The history of minted tokens: for which session, and when.
Mint(tok, sid) == tok :> [sid |-> sid, at |-> now] @@ issued

\* ------------------------------------------------------------- operations
\* create_session in demo mode, lines 70-106: sweep, build, store, return.
\* _create_demo_payment does not await, so the call is one step.
create_session_demo ==
    /\ demo_mode
    /\ nextSid <= MaxSessions
    /\ sessions' = (nextSid :> new_session(now)) @@ cleanup_sessions(now)
    /\ tokens' = cleanup_tokens(now)
    /\ nextSid' = nextSid + 1
    /\ last' = Response("create_session", "created", None)
    /\ UNCHANGED <<now, demo_mode, calls, nextTok, issued, awaited>>

\* create_session with a gateway, lines 70-92: sweep, build the session dict
\* (created_at is taken here, line 82), then await _create_meshulam_payment.
create_session_start ==
    /\ ~demo_mode
    /\ CanSuspend
    /\ sessions' = cleanup_sessions(now)
    /\ tokens' = cleanup_tokens(now)
    /\ calls' = Suspend(Suspended("create_session", None, None, now))
    /\ UNCHANGED <<now, demo_mode, nextSid, nextTok, last, issued, awaited>>

\* create_session after the gateway answered, lines 278-282 and 94-106: the
\* gateway's processId (which may be missing) is kept, the session is stored.
create_session_stored(c, has_process_id) ==
    /\ c \in Running
    /\ c.op = "create_session"
    /\ nextSid <= MaxSessions
    /\ sessions' = (nextSid :> [new_session(c.at) EXCEPT
                        !.meshulam_process_id =
                            IF has_process_id THEN nextSid ELSE None]) @@ sessions
    /\ nextSid' = nextSid + 1
    /\ calls' = Resume(c)
    /\ last' = Response("create_session", "created", None)
    /\ UNCHANGED <<now, demo_mode, tokens, nextTok, issued, awaited>>

\* create_session when the gateway call raises, lines 274-276 and 284-286:
\* RuntimeError leaves create_session before line 95, nothing is stored.
create_session_failed(c) ==
    /\ c \in Running
    /\ c.op = "create_session"
    /\ calls' = Resume(c)
    /\ last' = Response("create_session", "error", None)
    /\ UNCHANGED <<now, demo_mode, sessions, tokens, nextSid, nextTok, issued,
                   awaited>>

\* verify_session, lines 112-114: unknown session id.
verify_session_not_found(sid) ==
    /\ sid \notin DOMAIN sessions
    /\ last' = Response("verify_session", "not_found", None)
    /\ UNCHANGED <<now, demo_mode, sessions, tokens, calls, nextSid, nextTok,
                   awaited, issued>>

\* verify_session, lines 116-124: already completed, the stored token is returned.
verify_session_again(sid) ==
    /\ sid \in DOMAIN sessions
    /\ already_completed(sessions[sid])
    /\ last' = Response("verify_session", "completed", sessions[sid].pdf_token)
    /\ UNCHANGED <<now, demo_mode, sessions, tokens, calls, nextSid, nextTok,
                   awaited, issued>>

\* A demo verify_session that returns its token without entering it in the
\* token map.
verify_session_demo_unregistered(sid) ==
    /\ demo_mode
    /\ sid \in DOMAIN sessions
    /\ ~already_completed(sessions[sid])
    /\ nextTok <= MaxTokens
    /\ sessions' = [sessions EXCEPT ![sid] = verify_complete(@, nextTok, now)]
    /\ issued' = Mint(nextTok, sid)
    /\ nextTok' = nextTok + 1
    /\ last' = Response("verify_session", "completed", nextTok)
    /\ UNCHANGED <<now, demo_mode, tokens, calls, nextSid, awaited>>

\* verify_session in demo mode, lines 127-128 and 132-148: verified = True
\* without an await, so the whole call is one step.
verify_session_demo(sid) ==
    /\ demo_mode
    /\ sid \in DOMAIN sessions
    /\ ~already_completed(sessions[sid])
    /\ nextTok <= MaxTokens
    /\ sessions' = [sessions EXCEPT ![sid] = verify_complete(@, nextTok, now)]
    /\ tokens' = (nextTok :> sid) @@ tokens
    /\ issued' = Mint(nextTok, sid)
    /\ nextTok' = nextTok + 1
    /\ last' = Response("verify_session", "completed", nextTok)
    /\ UNCHANGED <<now, demo_mode, calls, nextSid, awaited>>

\* A verify_session that takes a session without a process id for paid.
verify_session_no_process_completes(sid) ==
    /\ ~demo_mode
    /\ sid \in DOMAIN sessions
    /\ ~already_completed(sessions[sid])
    /\ sessions[sid].meshulam_process_id = None
    /\ nextTok <= MaxTokens
    /\ sessions' = [sessions EXCEPT ![sid] = verify_complete(@, nextTok, now)]
    /\ tokens' = (nextTok :> sid) @@ tokens
    /\ issued' = Mint(nextTok, sid)
    /\ nextTok' = nextTok + 1
    /\ last' = Response("verify_session", "completed", nextTok)
    /\ UNCHANGED <<now, demo_mode, calls, nextSid, awaited>>

\* verify_session with a gateway and no process id, lines 292-294 and 150-156:
\* _verify_meshulam_payment returns False before any await.
verify_session_no_process(sid) ==
    /\ ~demo_mode
    /\ sid \in DOMAIN sessions
    /\ ~already_completed(sessions[sid])
    /\ sessions[sid].meshulam_process_id = None
    /\ last' = Response("verify_session", "pending", None)
    /\ UNCHANGED <<now, demo_mode, sessions, tokens, calls, nextSid, nextTok,
                   awaited, issued>>

\* verify_session with a gateway, lines 112-130: the checks pass and the call
\* awaits the gateway query (line 312), holding the session dict it looked up.
verify_session_start(sid) ==
    /\ ~demo_mode
    /\ CanSuspend
    /\ sid \in DOMAIN sessions
    /\ ~already_completed(sessions[sid])
    /\ sessions[sid].meshulam_process_id # None
    /\ calls' = Suspend(Suspended("verify_session", sid, None, None))
    /\ UNCHANGED <<now, demo_mode, sessions, tokens, nextSid, nextTok, last,
                   awaited, issued>>

\* verify_session after the gateway reported success, lines 132-148.  The
\* status is not read again.  The writes go to the dict looked up at line 112:
\* the stored session, or a dict no longer in the store if it was swept.
verify_session_verified(c) ==
    /\ c \in Running
    /\ c.op = "verify_session"
    /\ nextTok <= MaxTokens
    /\ LET sid == c.sid IN
        /\ sessions' = IF sid \in DOMAIN sessions
                       THEN [sessions EXCEPT ![sid] = verify_complete(@, nextTok, now)]
                       ELSE sessions
        /\ tokens' = (nextTok :> sid) @@ tokens
        /\ issued' = Mint(nextTok, sid)
        /\ last' = Response("verify_session", "completed", nextTok)
    /\ nextTok' = nextTok + 1
    /\ calls' = Resume(c)
    /\ UNCHANGED <<now, demo_mode, nextSid, awaited>>

\* A verify_session that gives the session up when the gateway reports no
\* success.
verify_session_unverified_fails(c) ==
    /\ c \in Running
    /\ c.op = "verify_session"
    /\ sessions' = IF c.sid \in DOMAIN sessions
                   THEN [sessions EXCEPT ![c.sid].status = "failed"]
                   ELSE sessions
    /\ last' = Response("verify_session", "pending", None)
    /\ calls' = Resume(c)
    /\ UNCHANGED <<now, demo_mode, tokens, nextSid, nextTok, issued, awaited>>

\* verify_session after the gateway reported no success or the query failed,
\* lines 316-325 and 150-156.
verify_session_unverified(c) ==
    /\ c \in Running
    /\ c.op = "verify_session"
    /\ last' = Response("verify_session", "pending", None)
    /\ calls' = Resume(c)
    /\ UNCHANGED <<now, demo_mode, sessions, tokens, nextSid, nextTok, issued,
                   awaited>>

\* handle_webhook, lines 208-218: the payload names no session (cField1 missing
\* or empty: external_id = None here) or one that is not stored.
handle_webhook_unknown(external_id, success) ==
    /\ external_id = None \/ external_id \notin DOMAIN sessions
    /\ last' = Response("handle_webhook", "false", None)
    /\ UNCHANGED <<now, demo_mode, sessions, tokens, calls, nextSid, nextTok,
                   awaited, issued>>

\* handle_webhook, lines 220-228: status "1"; a session that is not completed
\* is completed with a fresh token, a completed one is left alone.
handle_webhook_success(external_id) ==
    /\ external_id \in DOMAIN sessions
    /\ IF webhook_should_complete(sessions[external_id])
       THEN /\ nextTok <= MaxTokens
            /\ sessions' = [sessions EXCEPT
                               ![external_id] = webhook_complete(@, nextTok, now)]
            /\ tokens' = (nextTok :> external_id) @@ tokens
            /\ issued' = Mint(nextTok, external_id)
            /\ nextTok' = nextTok + 1
       ELSE UNCHANGED <<sessions, tokens, issued, nextTok>>
    /\ last' = Response("handle_webhook", "true", None)
    /\ UNCHANGED <<now, demo_mode, calls, nextSid, awaited>>

\* handle_webhook, lines 230-231: any other status code.
handle_webhook_failure(external_id) ==
    /\ external_id \in DOMAIN sessions
    /\ last' = Response("handle_webhook", "false", None)
    /\ UNCHANGED <<now, demo_mode, sessions, tokens, calls, nextSid, nextTok,
                   awaited, issued>>

\* handle_webhook, lines 208 and 215: a payload whose customFields is not an
\* object (null, a string) makes `.get("cField1")` raise AttributeError, one
\* whose cField1 is not hashable (a list) makes `_sessions.get` raise
\* TypeError.  Nothing was written; payment_webhook (main.py, lines 474-476)
\* catches the exception and answers processed = false.
handle_webhook_malformed ==
    /\ last' = Response("handle_webhook", "raised", None)
    /\ UNCHANGED <<now, demo_mode, sessions, tokens, calls, nextSid, nextTok,
                   awaited, issued>>

\* A lookup that consumes the token whatever it answers.
tokens_after_lookup_consuming(tok) == Without(tokens, {tok})

\* The token map after get_session_by_token(tok), line 183.
tokens_after_lookup(tok) ==
    IF get_session_by_token(tok).drop THEN Without(tokens, {tok}) ELSE tokens

\* download_pdf_by_token (main.py), lines 433-435: the token does not resolve.
download_not_found(tok) ==
    /\ get_session_by_token(tok).session = None
    /\ tokens' = tokens_after_lookup(tok)
    /\ last' = Response("download", "404", None)
    /\ UNCHANGED <<now, demo_mode, sessions, calls, nextSid, nextTok, issued,
                   awaited>>

\* download_pdf_by_token, lines 433-437 and 451-460: the token resolves and
\* the session holds cached bytes, which are returned.
download_cached(tok) ==
    /\ get_session_by_token(tok).session # None
    /\ sessions[get_session_by_token(tok).session].pdf_bytes
    /\ tokens' = tokens_after_lookup(tok)
    /\ last' = Response("download", "200", tok)
    /\ UNCHANGED <<now, demo_mode, sessions, calls, nextSid, nextTok, issued, awaited>>

\* download_pdf_by_token, lines 433-444: the token resolves, nothing is
\* cached, the handler awaits scan_url holding the session dict.
download_start(tok) ==
    /\ CanSuspend
    /\ get_session_by_token(tok).session # None
    /\ ~sessions[get_session_by_token(tok).session].pdf_bytes
    /\ tokens' = tokens_after_lookup(tok)
    /\ calls' = Suspend(Suspended("download", get_session_by_token(tok).session, tok, None))
    /\ UNCHANGED <<now, demo_mode, sessions, nextSid, nextTok, last, issued, awaited>>

\* download_pdf_by_token, lines 444-460: scan and rendering succeeded, the
\* bytes are cached (store_pdf) and returned.
download_rendered(c) ==
    /\ c \in Running
    /\ c.op = "download"
    /\ sessions' = store_pdf(c.sid)
    /\ calls' = Resume(c)
    /\ last' = Response("download", "200", c.tok)
    /\ UNCHANGED <<now, demo_mode, tokens, nextSid, nextTok, issued, awaited>>

\* download_pdf_by_token, lines 447-449: scan or rendering raised, HTTP 500.
download_failed(c) ==
    /\ c \in Running
    /\ c.op = "download"
    /\ calls' = Resume(c)
    /\ last' = Response("download", "500", None)
    /\ UNCHANGED <<now, demo_mode, sessions, tokens, nextSid, nextTok, issued,
                   awaited>>

\* ------------------------------------------------- verify_payment endpoint
\* verify_payment (main.py, lines 385-398) calls verify_session and, when the
\* answer is completed with a token and the stored session has no cached PDF,
\* awaits scan_url to render it.  No await lies between the return of
\* verify_session and that of line 398, so each completing outcome of
\* verify_session and the start of the rendering are one step.

\* verify_payment, line 393: `if session and not session.get("pdf_bytes")`,
\* read in the store as verify_session left it.
needs_render(store, sid) == sid \in DOMAIN store /\ ~store[sid].pdf_bytes

\* verify_payment on a session already completed (payment.py, lines 116-124).
verify_payment_again(sid) ==
    /\ sid \in DOMAIN sessions
    /\ already_completed(sessions[sid])
    /\ last' = Response("verify_session", "completed", sessions[sid].pdf_token)
    /\ IF needs_render(sessions, sid)
       THEN /\ CanSuspend
            /\ calls' = Suspend(Suspended("verify_payment", sid,
                                          sessions[sid].pdf_token, None))
       ELSE UNCHANGED calls
    /\ UNCHANGED <<now, demo_mode, sessions, tokens, nextSid, nextTok, awaited,
                   issued>>

\* verify_payment in demo mode on a session not yet completed (payment.py,
\* lines 127-128 and 132-148), then the rendering starts.
verify_payment_demo(sid) ==
    /\ demo_mode
    /\ CanSuspend
    /\ sid \in DOMAIN sessions
    /\ ~already_completed(sessions[sid])
    /\ nextTok <= MaxTokens
    /\ sessions' = [sessions EXCEPT ![sid] = verify_complete(@, nextTok, now)]
    /\ tokens' = (nextTok :> sid) @@ tokens
    /\ issued' = Mint(nextTok, sid)
    /\ nextTok' = nextTok + 1
    /\ last' = Response("verify_session", "completed", nextTok)
    /\ calls' = IF needs_render(sessions', sid)
                THEN Suspend(Suspended("verify_payment", sid, nextTok, None))
                ELSE calls
    /\ UNCHANGED <<now, demo_mode, nextSid, awaited>>

\* verify_payment after the gateway reported success to its verify_session
\* (payment.py, lines 132-148), then the rendering starts unless the session
\* was swept or already holds a PDF.
verify_payment_verified(c) ==
    /\ c \in Running
    /\ c.op = "verify_session"
    /\ nextTok <= MaxTokens
    /\ sessions' = IF c.sid \in DOMAIN sessions
                   THEN [sessions EXCEPT ![c.sid] = verify_complete(@, nextTok, now)]
                   ELSE sessions
    /\ tokens' = (nextTok :> c.sid) @@ tokens
    /\ issued' = Mint(nextTok, c.sid)
    /\ last' = Response("verify_session", "completed", nextTok)
    /\ nextTok' = nextTok + 1
    /\ calls' = IF needs_render(sessions', c.sid)
                THEN Resume(c) (+) SetToBag({Suspended("verify_payment", c.sid,
                                                       nextTok, None)})
                ELSE Resume(c)
    /\ UNCHANGED <<now, demo_mode, nextSid, awaited>>

\* verify_payment, lines 398-416: scan and rendering succeeded, the bytes are
\* cached (store_pdf, line 400) and then the email is sent (lines 403-413); a
\* failure of _send_email is logged.  The answer of verify_session is returned
\* (line 418).
verify_payment_rendered(c, emailed) ==
    /\ c \in Running
    /\ c.op = "verify_payment"
    /\ sessions' = store_pdf(c.sid)
    /\ calls' = Resume(c)
    /\ last' = Response("verify_session", "completed", c.tok)
    /\ UNCHANGED <<now, demo_mode, tokens, nextSid, nextTok, issued, awaited>>

\* verify_payment, lines 415-418: scan_url or generate_pdf_report raised, the
\* error is logged and the answer of verify_session is returned.
verify_payment_render_failed(c) ==
    /\ c \in Running
    /\ c.op = "verify_payment"
    /\ calls' = Resume(c)
    /\ last' = Response("verify_session", "completed", c.tok)
    /\ UNCHANGED <<now, demo_mode, sessions, tokens, nextSid, nextTok, issued,
                   awaited>>

\* ------------------------------------------------------------------ clock
\* Time passes: between requests, or while handlers are suspended at an await.
\* Before the first session is stored the store is empty and the time of day
\* plays no part, so the clock starts there.
Tick ==
    /\ nextSid > 1
    /\ now + LongTick <= MaxTime
    /\ calls = EmptyBag \/ awaited < MaxAwaitTicks
    /\ now' = now + LongTick
    /\ awaited' = IF calls = EmptyBag THEN awaited ELSE awaited + 1
    /\ UNCHANGED <<demo_mode, sessions, tokens, calls, nextSid, nextTok, last,
                   issued>>

\* ---------------------------------------------------------------- scoring
\* The severities axe-core and the interactive checks report; "unknown" is
\* any other value, a missing key included.
Impacts == {"critical", "serious", "moderate", "minor"}
Severities == Impacts \cup {"unknown"}
NodeCounts == {0, 2, MaxNodes}

\* A violation of axe_results["violations"]: its impact and len(nodes).
Violations == [impact : Severities, nodes : NodeCounts]

\* An interactive check: its severity and its instance count.
Checks == [severity : Severities, nodes_count : {1, MaxNodes}]

\* The sequences over S of length at most n.
SeqUpTo(S, n) == UNION {[1..k -> S] : k \in 0..n}

min(a, b) == IF a < b THEN a ELSE b
max(a, b) == IF a > b THEN a ELSE b

\* Rule-engine violations weighted as interactive checks are.
axe_weight_of_checks(impact) ==
    CASE impact = "critical" -> 15
      [] impact = "serious" -> 10
      [] impact = "moderate" -> 5
      [] impact = "minor" -> 2
      [] OTHER -> 5

\* calculate_score (scanner.py), lines 487-494: weights.get(impact, 2).
axe_weight(impact) ==
    CASE impact = "critical" -> 10
      [] impact = "serious" -> 5
      [] impact = "moderate" -> 2
      [] impact = "minor" -> 1
      [] OTHER -> 2

\* calculate_score, lines 500-506: weights.get(severity, 5).
check_weight(severity) ==
    CASE severity = "critical" -> 15
      [] severity = "serious" -> 10
      [] severity = "moderate" -> 5
      [] severity = "minor" -> 2
      [] OTHER -> 5

\* A loop over the violations that stops at the first one without nodes.
RECURSIVE deduct_violations_until_empty(_, _)
deduct_violations_until_empty(s, vs) ==
    IF vs = <<>> \/ Head(vs).nodes = 0
    THEN s
    ELSE deduct_violations_until_empty(
             s - axe_weight(Head(vs).impact) * min(Head(vs).nodes, 5), Tail(vs))

\* calculate_score, lines 482-495: the loop over the violations.
RECURSIVE deduct_violations(_, _)
deduct_violations(s, vs) ==
    IF vs = <<>>
    THEN s
    ELSE deduct_violations(
             s - axe_weight(Head(vs).impact) * min(Head(vs).nodes, 5), Tail(vs))

\* calculate_score, lines 498-506: the loop over the interactive checks.
RECURSIVE deduct_checks(_, _)
deduct_checks(s, cs) ==
    IF cs = <<>>
    THEN s
    ELSE deduct_checks(s - check_weight(Head(cs).severity), Tail(cs))

\* A clamp that forgets the lower end.
clamp_upper_only(s) == min(100, s)

\* calculate_score, line 508: max(0, min(100, score)).
clamp(s) == max(0, min(100, s))

\* calculate_score, lines 471-508.
calculate_score(violations, checks) ==
    clamp(deduct_checks(deduct_violations(100, violations), checks))

\* scan_url_sync (scanner_subprocess.py), lines 150-151 and 153-154: the
\* weights of its own score loop.
sync_axe_weight(impact) ==
    CASE impact = "critical" -> 10
      [] impact = "serious" -> 5
      [] impact = "moderate" -> 2
      [] impact = "minor" -> 1
      [] OTHER -> 2

sync_check_weight(severity) ==
    CASE severity = "critical" -> 15
      [] severity = "serious" -> 10
      [] severity = "moderate" -> 5
      [] severity = "minor" -> 2
      [] OTHER -> 5

\* scan_url_sync, lines 146-155: the score computed in line.
RECURSIVE sync_deduct_violations(_, _)
sync_deduct_violations(s, vs) ==
    IF vs = <<>>
    THEN s
    ELSE sync_deduct_violations(
             s - sync_axe_weight(Head(vs).impact) * min(Head(vs).nodes, 5), Tail(vs))

RECURSIVE sync_deduct_checks(_, _)
sync_deduct_checks(s, cs) ==
    IF cs = <<>>
    THEN s
    ELSE sync_deduct_checks(s - sync_check_weight(Head(cs).severity), Tail(cs))

scan_url_sync_score(violations, checks) ==
    max(0, min(100, sync_deduct_checks(sync_deduct_violations(100, violations), checks)))

\* count_by_severity (scanner.py), lines 515-518: the violations whose
\* "impact" equals the severity, len(nodes) each.
RECURSIVE count_violations(_, _)
count_violations(vs, severity) ==
    IF vs = <<>>
    THEN 0
    ELSE (IF Head(vs).impact = severity THEN Head(vs).nodes ELSE 0)
             + count_violations(Tail(vs), severity)

\* count_by_severity, lines 521-523: the checks whose "severity" equals the
\* severity, one each.
RECURSIVE count_checks(_, _)
count_checks(cs, severity) ==
    IF cs = <<>>
    THEN 0
    ELSE (IF Head(cs).severity = severity THEN 1 ELSE 0)
             + count_checks(Tail(cs), severity)

\* count_by_severity, lines 511-525.
count_by_severity(violations, checks, severity) ==
    count_violations(violations, severity) + count_checks(checks, severity)

\* assess_legal_risk (scanner.py), lines 532-551: the "level" of the dict it
\* returns.
assess_legal_risk(violations, checks) ==
    LET critical_count == count_by_severity(violations, checks, "critical")
        serious_count == count_by_severity(violations, checks, "serious")
        total_severe == critical_count + serious_count
    IN  IF total_severe >= 5 THEN "high"
        ELSE IF total_severe >= 2 THEN "medium"
        ELSE "low"

\* scan_url, lines 75-88: the "summary" and "legal_risk" keys of the report.
scan_url_report(violations, checks) ==
    [summary |-> [critical |-> count_by_severity(violations, checks, "critical"),
                  serious |-> count_by_severity(violations, checks, "serious"),
                  moderate |-> count_by_severity(violations, checks, "moderate"),
                  minor |-> count_by_severity(violations, checks, "minor")],
     legal_risk |-> assess_legal_risk(violations, checks),
     risk |-> "absent"]

\* scanner_subprocess.py, lines 14-17.
RISK_LOW == "LOW"
RISK_MEDIUM == "MEDIUM"
RISK_HIGH == "HIGH"
RISK_CRITICAL == "CRITICAL"

\* count_severity (scan_url_sync), line 159: len(nodes) of the violations
\* whose "impact" equals sev.
RECURSIVE sync_count_violations(_, _)
sync_count_violations(vs, sev) ==
    IF vs = <<>>
    THEN 0
    ELSE (IF Head(vs).impact = sev THEN Head(vs).nodes ELSE 0)
             + sync_count_violations(Tail(vs), sev)

\* count_severity, line 160: nodes_count of the checks whose "severity"
\* equals sev.
RECURSIVE sync_count_checks(_, _)
sync_count_checks(cs, sev) ==
    IF cs = <<>>
    THEN 0
    ELSE (IF Head(cs).severity = sev THEN Head(cs).nodes_count ELSE 0)
             + sync_count_checks(Tail(cs), sev)

\* count_severity, lines 158-161.
count_severity(violations, checks, sev) ==
    sync_count_violations(violations, sev) + sync_count_checks(checks, sev)

\* scan_url_sync, lines 175-186: the risk level from the critical count and
\* the score.
risk_level(critical, s) ==
    IF critical >= 5 THEN RISK_CRITICAL
    ELSE IF critical >= 3 \/ s < 40 THEN RISK_HIGH
    ELSE IF s < 70 THEN RISK_MEDIUM
    ELSE RISK_LOW

\* scan_url_sync, lines 163-214: the "risk" and "summary" keys it returns.
scan_url_sync_report(violations, checks) ==
    [summary |-> [critical |-> count_severity(violations, checks, "critical"),
                  serious |-> count_severity(violations, checks, "serious"),
                  moderate |-> count_severity(violations, checks, "moderate"),
                  minor |-> count_severity(violations, checks, "minor")],
     legal_risk |-> "absent",
     risk |-> risk_level(count_severity(violations, checks, "critical"),
                         scan_url_sync_score(violations, checks))]

\* RISK_COPY (pdf_generator.py), lines 126-143: the levels it has copy for.
RISK_COPY == {"LOW", "MEDIUM", "HIGH", "CRITICAL"}

\* _build_email_html (main.py), lines 266-268 and 292: the level shown is
\* risk.get("level_he", level), where risk = results.get("risk", {}) and
\* level = risk.get("level", "MEDIUM").  No "risk" dict a scan builds has a
\* "level_he" key.
build_email_html(results) ==
    IF results.risk = "absent" THEN "MEDIUM" ELSE results.risk

\* _build_cover (pdf_generator.py), lines 359-361 and 370: the label shown is
\* that of RISK_COPY.get(level, RISK_COPY["MEDIUM"]).
build_cover(results) ==
    LET level == IF results.risk = "absent" THEN "MEDIUM" ELSE results.risk
    IN  IF level \in RISK_COPY THEN level ELSE "MEDIUM"

\* A scanner process before its scan: the findings the page will yield.
InitScore ==
    /\ now = 0
    /\ demo_mode = TRUE
    /\ sessions = <<>>
    /\ tokens = <<>>
    /\ calls = EmptyBag
    /\ nextSid = 1
    /\ nextTok = 1
    /\ last = NoResponse
    /\ awaited = 0
    /\ issued = <<>>
    /\ axe_results \in SeqUpTo(Violations, MaxViolations)
    /\ playwright_results \in SeqUpTo(Checks, MaxChecks)
    /\ score = None
    /\ report = NoReport
    /\ delivered = NoDelivery
    /\ scan = NoScan

\* The interactive checks of scanner.py (lines 212, 259, 305, 360, 422) are
\* dicts without a count: one instance each.
one_instance_each(checks) ==
    \A i \in DOMAIN checks : checks[i].nodes_count = 1

\* scan_url (scanner.py), lines 54-95: the score, the summary and the legal
\* risk of the report it returns.
scan_url ==
    /\ score = None
    /\ one_instance_each(playwright_results)
    /\ score' = calculate_score(axe_results, playwright_results)
    /\ report' = scan_url_report(axe_results, playwright_results)
    /\ UNCHANGED <<axe_results, playwright_results, delivered, scan>>
    /\ UNCHANGED payment_vars

\* scan_url_sync (scanner_subprocess.py), lines 146-155.
scan_url_sync ==
    /\ score = None
    /\ score' = scan_url_sync_score(axe_results, playwright_results)
    /\ report' = scan_url_sync_report(axe_results, playwright_results)
    /\ UNCHANGED <<axe_results, playwright_results, delivered, scan>>
    /\ UNCHANGED payment_vars

\* send_report_email (main.py), lines 221-248: scan_url, generate_pdf_report
\* on its report, and the email built from the same report.
send_report_email ==
    /\ score = None
    /\ one_instance_each(playwright_results)
    /\ score' = calculate_score(axe_results, playwright_results)
    /\ report' = scan_url_report(axe_results, playwright_results)
    /\ delivered' = [email |-> build_email_html(report'),
                     cover |-> build_cover(report')]
    /\ UNCHANGED <<axe_results, playwright_results, scan>>
    /\ UNCHANGED payment_vars

NextScore ==
    \/ scan_url
    \/ scan_url_sync
    \/ send_report_email

SpecScore == InitScore /\ [][NextScore]_vars

\* ------------------------------------------------------- one scan, stepwise
\* scan_url (scanner.py) and scan_url_sync (scanner_subprocess.py) step by
\* step: `scan.pc` is the statement the function stands at, `scan.browser`
\* the browser it launched, `scan.ran` / `scan.raised` / `scan.found` the
\* interactive checks that ran, that raised and that appended a finding, and
\* `scan.exit` how the call ends.
ScanFunctions == {"scan_url", "scan_url_sync"}

\* The interactive checks in the order they run: run_playwright_checks
\* (scanner.py:142-162) and the inline checks of scan_url_sync
\* (scanner_subprocess.py:55, 80, 98, 121).
check_keys(fn) ==
    IF fn = "scan_url"
    THEN <<"keyboard", "focus", "skip", "form", "statement">>
    ELSE <<"keyboard", "skip", "focus", "form">>

\* The "severity" of the finding of a check (scanner.py:216, 263, 309, 364,
\* 426; scanner_subprocess.py:75, 93, 116, 141).
check_severity(fn, key) ==
    CASE key = "keyboard" -> "critical"
      [] key = "focus" -> "serious"
      [] key = "skip" -> "moderate"
      [] key = "form" -> IF fn = "scan_url" THEN "serious" ELSE "moderate"
      [] OTHER -> "serious"

\* The instance counts a finding of a check can carry: scan_url_sync counts
\* the unreachable elements (line 76) and the unlabelled inputs (line 142).
check_counts(fn, key) ==
    IF fn = "scan_url_sync" /\ key \in {"keyboard", "form"}
    THEN {1, MaxNodes}
    ELSE {1}

\* The check the scan stands at.
current_check == check_keys(scan.fn)[scan.check]

\* The scan record once the check it stands at is over: the next check, or
\* the scoring after the last one.
after_check(sc) ==
    IF sc.check = Len(check_keys(sc.fn))
    THEN [sc EXCEPT !.pc = "calculate_score", !.check = 0]
    ELSE [sc EXCEPT !.check = @ + 1]

\* scan_url lines 35-37, scan_url_sync lines 27-28: the browser is launched.
launch(fn) ==
    /\ scan.pc = "idle"
    /\ scan' = [scan EXCEPT !.fn = fn, !.pc = "new_page", !.browser = "open"]
    /\ UNCHANGED <<axe_results, playwright_results, score, report, delivered>>
    /\ UNCHANGED payment_vars

\* chromium.launch raises: no browser, the call raises.
launch_failed(fn) ==
    /\ scan.pc = "idle"
    /\ scan' = [scan EXCEPT !.fn = fn, !.pc = "done", !.exit = "raised"]
    /\ UNCHANGED <<axe_results, playwright_results, score, report, delivered>>
    /\ UNCHANGED payment_vars

\* scan_url line 38, scan_url_sync line 29: page = browser.new_page().
new_page ==
    /\ scan.pc = "new_page"
    /\ scan' = [scan EXCEPT !.pc = "goto"]
    /\ UNCHANGED <<axe_results, playwright_results, score, report, delivered>>
    /\ UNCHANGED payment_vars

\* new_page raises.  The statement stands before the `try:` of line 40 (31),
\* so the `finally` of line 97 (227) does not run: the exception leaves the
\* `with` block of line 35 (27), whose exit stops the Playwright driver.
\* Whether that ends the browser is the library's business: it is left open,
\* or it is gone with the driver.
new_page_failed(stopped) ==
    /\ scan.pc = "new_page"
    /\ scan' = [scan EXCEPT !.pc = "done", !.exit = "raised",
                            !.browser = IF stopped THEN "closed" ELSE "open"]
    /\ UNCHANGED <<axe_results, playwright_results, score, report, delivered>>
    /\ UNCHANGED payment_vars

\* scan_url line 43, scan_url_sync lines 33-35: the navigation.
goto ==
    /\ scan.pc = "goto"
    /\ scan' = [scan EXCEPT !.pc = "run_axe_core"]
    /\ UNCHANGED <<axe_results, playwright_results, score, report, delivered>>
    /\ UNCHANGED payment_vars

\* page.goto times out or fails: the exception reaches the `finally`.
goto_failed ==
    /\ scan.pc = "goto"
    /\ scan' = [scan EXCEPT !.pc = "finally", !.exit = "raised"]
    /\ UNCHANGED <<axe_results, playwright_results, score, report, delivered>>
    /\ UNCHANGED payment_vars

\* scan_url line 47 (run_axe_core, lines 101-123), scan_url_sync lines 38-49.
run_axe_core(violations) ==
    /\ scan.pc = "run_axe_core"
    /\ axe_results' = violations
    /\ scan' = [scan EXCEPT !.pc = "checks", !.check = 1]
    /\ UNCHANGED <<playwright_results, score, report, delivered>>
    /\ UNCHANGED payment_vars

\* add_script_tag or evaluate raises.
run_axe_core_failed ==
    /\ scan.pc = "run_axe_core"
    /\ scan' = [scan EXCEPT !.pc = "finally", !.exit = "raised"]
    /\ UNCHANGED <<axe_results, playwright_results, score, report, delivered>>
    /\ UNCHANGED payment_vars

\* A check finds its issue and its finding is appended (scanner.py:143-144
\* and alike; scanner_subprocess.py:72-77 and alike).
check_finding(count) ==
    /\ scan.pc = "checks"
    /\ count \in check_counts(scan.fn, current_check)
    /\ playwright_results' =
           Append(playwright_results,
                  [severity |-> check_severity(scan.fn, current_check),
                   nodes_count |-> count])
    /\ scan' = after_check([scan EXCEPT !.ran = @ \cup {current_check},
                                        !.found = @ \cup {current_check}])
    /\ UNCHANGED <<axe_results, score, report, delivered>>
    /\ UNCHANGED payment_vars

\* A check finds nothing: `return None` (scanner.py:226), a false condition
\* (scanner_subprocess.py:72).
check_passed ==
    /\ scan.pc = "checks"
    /\ scan' = after_check([scan EXCEPT !.ran = @ \cup {current_check}])
    /\ UNCHANGED <<axe_results, playwright_results, score, report, delivered>>
    /\ UNCHANGED payment_vars

\* A check of scanner.py raises inside its `try:`; `except Exception` logs
\* and returns None (lines 228-230, 279-281, 321-323, 384-386, 466-468), so
\* run_playwright_checks appends nothing and goes on.
check_except ==
    /\ scan.pc = "checks"
    /\ scan.fn = "scan_url"
    /\ scan' = after_check([scan EXCEPT !.ran = @ \cup {current_check},
                                        !.raised = @ \cup {current_check}])
    /\ UNCHANGED <<axe_results, playwright_results, score, report, delivered>>
    /\ UNCHANGED payment_vars

\* A page.evaluate of an inline check of scan_url_sync raises (lines 55, 58,
\* 80, 98, 121): nothing catches it before the `finally` of line 227.
inline_check_raised ==
    /\ scan.pc = "checks"
    /\ scan.fn = "scan_url_sync"
    /\ scan' = [scan EXCEPT !.ran = @ \cup {current_check},
                            !.raised = @ \cup {current_check},
                            !.pc = "finally", !.exit = "raised"]
    /\ UNCHANGED <<axe_results, playwright_results, score, report, delivered>>
    /\ UNCHANGED payment_vars

\* scan_url lines 54-95, scan_url_sync lines 146-225: the score, the report
\* and `return`, which the `finally` follows.
assemble ==
    /\ scan.pc = "calculate_score"
    /\ score' = IF scan.fn = "scan_url"
                THEN calculate_score(axe_results, playwright_results)
                ELSE scan_url_sync_score(axe_results, playwright_results)
    /\ report' = IF scan.fn = "scan_url"
                 THEN scan_url_report(axe_results, playwright_results)
                 ELSE scan_url_sync_report(axe_results, playwright_results)
    /\ scan' = [scan EXCEPT !.pc = "finally", !.exit = "returned"]
    /\ UNCHANGED <<axe_results, playwright_results, delivered>>
    /\ UNCHANGED payment_vars

\* An exception while scoring or assembling (a violation whose "nodes" is
\* not a list, say).
assemble_failed ==
    /\ scan.pc = "calculate_score"
    /\ scan' = [scan EXCEPT !.pc = "finally", !.exit = "raised"]
    /\ UNCHANGED <<axe_results, playwright_results, score, report, delivered>>
    /\ UNCHANGED payment_vars

\* scan_url lines 97-98, scan_url_sync lines 227-228: browser.close().
finally_close ==
    /\ scan.pc = "finally"
    /\ scan' = [scan EXCEPT !.pc = "done", !.browser = "closed"]
    /\ UNCHANGED <<axe_results, playwright_results, score, report, delivered>>
    /\ UNCHANGED payment_vars

NextScan ==
    \/ \E fn \in ScanFunctions : launch(fn)
    \/ \E fn \in ScanFunctions : launch_failed(fn)
    \/ new_page
    \/ \E stopped \in BOOLEAN : new_page_failed(stopped)
    \/ goto
    \/ goto_failed
    \/ \E violations \in SeqUpTo(Violations, 1) : run_axe_core(violations)
    \/ run_axe_core_failed
    \/ \E count \in {1, MaxNodes} : check_finding(count)
    \/ check_passed
    \/ check_except
    \/ inline_check_raised
    \/ assemble
    \/ assemble_failed
    \/ finally_close

SpecScan == Init /\ [][NextScan]_vars

\* ---------------------------------------------------------- specification
Next ==
    \/ create_session_demo /\ UNCHANGED scan_vars
    \/ create_session_start /\ UNCHANGED scan_vars
    \/ \E c \in Running, p \in BOOLEAN : create_session_stored(c, p) /\ UNCHANGED scan_vars
    \/ \E c \in Running : create_session_failed(c) /\ UNCHANGED scan_vars
    \/ \E sid \in SessionIds : verify_session_not_found(sid) /\ UNCHANGED scan_vars
    \/ \E sid \in SessionIds : verify_session_again(sid) /\ UNCHANGED scan_vars
    \/ \E sid \in SessionIds : verify_session_demo(sid) /\ UNCHANGED scan_vars
    \/ \E sid \in SessionIds : verify_session_no_process(sid) /\ UNCHANGED scan_vars
    \/ \E sid \in SessionIds : verify_session_start(sid) /\ UNCHANGED scan_vars
    \/ \E c \in Running : verify_session_verified(c) /\ UNCHANGED scan_vars
    \/ \E c \in Running : verify_session_unverified(c) /\ UNCHANGED scan_vars
    \/ \E e \in SessionIds \cup {None}, ok \in BOOLEAN : handle_webhook_unknown(e, ok) /\ UNCHANGED scan_vars
    \/ \E e \in SessionIds : handle_webhook_success(e) /\ UNCHANGED scan_vars
    \/ \E e \in SessionIds : handle_webhook_failure(e) /\ UNCHANGED scan_vars
    \/ handle_webhook_malformed /\ UNCHANGED scan_vars
    \/ \E tok \in TokenIds : download_not_found(tok) /\ UNCHANGED scan_vars
    \/ \E tok \in TokenIds : download_cached(tok) /\ UNCHANGED scan_vars
    \/ \E tok \in TokenIds : download_start(tok) /\ UNCHANGED scan_vars
    \/ \E c \in Running : download_rendered(c) /\ UNCHANGED scan_vars
    \/ \E c \in Running : download_failed(c) /\ UNCHANGED scan_vars
    \/ Tick /\ UNCHANGED scan_vars

Spec == Init /\ [][Next]_vars

\* ---------------------------------------------------- sub-specifications
\* The service driven by create_session and verify_session alone: every
\* token is minted by verify_session.
NextVerify ==
    \/ create_session_demo /\ UNCHANGED scan_vars
    \/ create_session_start /\ UNCHANGED scan_vars
    \/ \E c \in Running, p \in BOOLEAN : create_session_stored(c, p) /\ UNCHANGED scan_vars
    \/ \E c \in Running : create_session_failed(c) /\ UNCHANGED scan_vars
    \/ \E sid \in SessionIds : verify_session_not_found(sid) /\ UNCHANGED scan_vars
    \/ \E sid \in SessionIds : verify_session_again(sid) /\ UNCHANGED scan_vars
    \/ \E sid \in SessionIds : verify_session_demo(sid) /\ UNCHANGED scan_vars
    \/ \E sid \in SessionIds : verify_session_no_process(sid) /\ UNCHANGED scan_vars
    \/ \E sid \in SessionIds : verify_session_start(sid) /\ UNCHANGED scan_vars
    \/ \E c \in Running : verify_session_verified(c) /\ UNCHANGED scan_vars
    \/ \E c \in Running : verify_session_unverified(c) /\ UNCHANGED scan_vars
    \/ Tick /\ UNCHANGED scan_vars

SpecVerify == Init /\ [][NextVerify]_vars

\* The service driven by create_session and handle_webhook alone: every
\* token is minted by handle_webhook.
NextWebhook ==
    \/ create_session_demo /\ UNCHANGED scan_vars
    \/ create_session_start /\ UNCHANGED scan_vars
    \/ \E c \in Running, p \in BOOLEAN : create_session_stored(c, p) /\ UNCHANGED scan_vars
    \/ \E c \in Running : create_session_failed(c) /\ UNCHANGED scan_vars
    \/ \E e \in SessionIds \cup {None}, ok \in BOOLEAN : handle_webhook_unknown(e, ok) /\ UNCHANGED scan_vars
    \/ \E e \in SessionIds : handle_webhook_success(e) /\ UNCHANGED scan_vars
    \/ \E e \in SessionIds : handle_webhook_failure(e) /\ UNCHANGED scan_vars
    \/ handle_webhook_malformed /\ UNCHANGED scan_vars
    \/ Tick /\ UNCHANGED scan_vars

SpecWebhook == Init /\ [][NextWebhook]_vars

\* The endpoints of a purchase paid through verify_payment: create_payment,
\* verify_payment with its rendering and email, download_pdf_by_token.
NextPayment ==
    \/ create_session_demo /\ UNCHANGED scan_vars
    \/ create_session_start /\ UNCHANGED scan_vars
    \/ \E c \in Running, p \in BOOLEAN : create_session_stored(c, p) /\ UNCHANGED scan_vars
    \/ \E c \in Running : create_session_failed(c) /\ UNCHANGED scan_vars
    \/ \E sid \in SessionIds : verify_session_not_found(sid) /\ UNCHANGED scan_vars
    \/ \E sid \in SessionIds : verify_session_no_process(sid) /\ UNCHANGED scan_vars
    \/ \E sid \in SessionIds : verify_session_start(sid) /\ UNCHANGED scan_vars
    \/ \E c \in Running : verify_session_unverified(c) /\ UNCHANGED scan_vars
    \/ \E sid \in SessionIds : verify_payment_again(sid) /\ UNCHANGED scan_vars
    \/ \E sid \in SessionIds : verify_payment_demo(sid) /\ UNCHANGED scan_vars
    \/ \E c \in Running : verify_payment_verified(c) /\ UNCHANGED scan_vars
    \/ \E c \in Running, emailed \in BOOLEAN : verify_payment_rendered(c, emailed) /\ UNCHANGED scan_vars
    \/ \E c \in Running : verify_payment_render_failed(c) /\ UNCHANGED scan_vars
    \/ \E tok \in TokenIds : download_not_found(tok) /\ UNCHANGED scan_vars
    \/ \E tok \in TokenIds : download_cached(tok) /\ UNCHANGED scan_vars
    \/ \E tok \in TokenIds : download_start(tok) /\ UNCHANGED scan_vars
    \/ \E c \in Running : download_rendered(c) /\ UNCHANGED scan_vars
    \/ \E c \in Running : download_failed(c) /\ UNCHANGED scan_vars
    \/ Tick /\ UNCHANGED scan_vars

SpecPayment == Init /\ [][NextPayment]_vars

\* ================================================================= claims
TokensOf(sid) == {t \in DOMAIN tokens : tokens[t] = sid}
MintedFor(sid) == {t \in DOMAIN issued : issued[t].sid = sid}
Swept == {sid \in SessionIds : sid < nextSid /\ sid \notin DOMAIN sessions}

\* C1 (under SpecVerify): two verify_session calls running concurrently on
\* one PENDING session never both mint a token: at most one token of the map
\* names the session, and verify_session minted (and so returned) at most one
\* token for it.
C1_OneTokenPerConcurrentVerify ==
    \A sid \in SessionIds :
        /\ Cardinality(TokensOf(sid)) <= 1
        /\ Cardinality(MintedFor(sid)) <= 1

\* C2: once a session is COMPLETED, its status, pdf_token and completed_at
\* never change while it is stored, under any interleaving of verify_session
\* and handle_webhook.
C2_CompletedIsFrozen ==
    [][\A sid \in DOMAIN sessions :
          (sessions[sid].status = "completed" /\ sid \in DOMAIN sessions')
              => /\ sessions'[sid].status = sessions[sid].status
                 /\ sessions'[sid].pdf_token = sessions[sid].pdf_token
                 /\ sessions'[sid].completed_at = sessions[sid].completed_at]_vars

\* C3: for every stored session, pdf_token is set iff status is completed,
\* and completed_at is set iff status is completed.
C3_TokenIffCompleted ==
    \A sid \in DOMAIN sessions :
        /\ (sessions[sid].pdf_token # None) <=> (sessions[sid].status = "completed")
        /\ (sessions[sid].completed_at # None) <=> (sessions[sid].status = "completed")

\* C3, witness: the store holds a completed session, with its token in the
\* token map, next to a pending one.
C3_Witness ==
    /\ \E sid \in DOMAIN sessions :
          /\ sessions[sid].status = "completed"
          /\ sessions[sid].pdf_token \in DOMAIN tokens
          /\ sessions[sid].completed_at # None
    /\ \E sid \in DOMAIN sessions :
          /\ sessions[sid].status = "pending"
          /\ sessions[sid].pdf_token = None

\* C4: for a COMPLETED session every further verify_session call returns the
\* token the session was completed with, the only one ever minted for it, and
\* changes neither the session store nor the token map.
C4_VerifyAgainReturnsTheToken ==
    [][\A sid \in SessionIds :
          verify_session_again(sid)
              => /\ last'.status = "completed"
                 /\ MintedFor(sid) = {last'.pdf_token}
                 /\ UNCHANGED <<sessions, tokens, nextTok, issued>>]_vars

\* A handle_webhook call reporting success for the session id `sid`.
webhook_success_call(sid) ==
    handle_webhook_success(sid) \/ handle_webhook_unknown(sid, TRUE)

\* C5 (under SpecWebhook), as stated: once handle_webhook completed a session,
\* every later success notification for it returns true and leaves the
\* session store and the token map unchanged.
C5_ReplayAlwaysTrue ==
    [][\A sid \in SessionIds :
          (MintedFor(sid) # {} /\ webhook_success_call(sid))
              => /\ last'.status = "true"
                 /\ UNCHANGED <<sessions, tokens>>]_vars

\* C5 (under SpecWebhook), amended: handle_webhook mints at most one token per
\* session; a success notification for a stored session returns true, it
\* completes a pending session with one fresh token stamped now and leaves a
\* completed one and the token map unchanged; for a session that was swept
\* it returns false and changes nothing.
C5_ReplayCompletesOnce ==
    [][/\ \A sid \in SessionIds : Cardinality(MintedFor(sid)') <= 1
       /\ \A sid \in SessionIds :
             webhook_success_call(sid) =>
                IF sid \notin DOMAIN sessions
                THEN last'.status = "false" /\ UNCHANGED <<sessions, tokens, issued>>
                ELSE /\ last'.status = "true"
                     /\ IF sessions[sid].status = "completed"
                        THEN UNCHANGED <<sessions, tokens, issued, nextTok>>
                        ELSE /\ sessions'[sid].status = "completed"
                             /\ sessions'[sid].completed_at = now
                             /\ sessions'[sid].pdf_token = nextTok
                             /\ tokens' = (nextTok :> sid) @@ tokens
                             /\ MintedFor(sid)' = {nextTok}]_vars

\* C5, witness: a success notification was answered true for a completed
\* session holding its one token, after another session that handle_webhook
\* had completed was swept.
C5_Witness ==
    /\ last.op = "handle_webhook" /\ last.status = "true"
    /\ \E sid \in DOMAIN sessions :
          /\ sessions[sid].status = "completed"
          /\ TokensOf(sid) = {sessions[sid].pdf_token}
          /\ MintedFor(sid) = {sessions[sid].pdf_token}
    /\ \E sid \in Swept : MintedFor(sid) # {}

\* C6: after a successful download with a token, a further redemption of the
\* same token is answered not-found.
C6_RedeemedAtMostOnce ==
    (last.op = "download" /\ last.status = "200")
        => get_session_by_token(last.pdf_token).session = None

\* The seconds since the completion of the session that `tok` names.
elapsed_of(tok) == now - sessions[tokens[tok]].completed_at

\* `tok` is in the token map and names a stored, completed session.
names_completed(tok) ==
    /\ tok \in DOMAIN tokens
    /\ tokens[tok] \in DOMAIN sessions
    /\ sessions[tokens[tok]].status = "completed"
    /\ sessions[tokens[tok]].completed_at # None

\* C7, as stated: get_session_by_token returns a session only if it is
\* completed and strictly less than 1800 s passed since completed_at.
C7_ResolvesStrictlyBelowWindow ==
    \A tok \in TokenIds :
        get_session_by_token(tok).session # None
            => names_completed(tok) /\ elapsed_of(tok) < TOKEN_TTL

\* C7, amended: get_session_by_token returns a session only if it is
\* completed and at most 1800 s passed since completed_at; for a token naming
\* a stored completed session it returns the session up to and including the
\* 1800th second and not-found after it.
C7_ResolvesUpToWindow ==
    \A tok \in TokenIds :
        /\ get_session_by_token(tok).session # None
              => /\ names_completed(tok)
                 /\ get_session_by_token(tok).session = tokens[tok]
                 /\ elapsed_of(tok) <= TOKEN_TTL
        /\ names_completed(tok)
              => (get_session_by_token(tok).session = None
                     <=> elapsed_of(tok) > TOKEN_TTL)

\* C7, witness: a token resolves exactly 1800 s after completed_at.
C7_Witness ==
    \E tok \in TokenIds :
        /\ get_session_by_token(tok).session # None
        /\ elapsed_of(tok) = TOKEN_TTL

\* C8, as stated, in demo mode (no handler is ever suspended on the gateway):
\* a token minted less than 1800 s ago resolves to its session, one minted
\* more than 1800 s ago is not-found.
C8_ResolvesThroughoutWindow ==
    demo_mode =>
        \A t \in DOMAIN issued :
            /\ now - issued[t].at < TOKEN_TTL
                  => get_session_by_token(t).session = issued[t].sid
            /\ now - issued[t].at > TOKEN_TTL
                  => get_session_by_token(t).session = None

\* C8, amended: a token resolves to its session while the session is stored
\* and at most 1800 s passed since the token was minted; it is not-found once
\* the session was swept (7200 s after its creation, even inside the token's
\* window) and once more than 1800 s passed since the session's completed_at.
C8_ResolvesWhileStored ==
    \A t \in DOMAIN issued :
        /\ (issued[t].sid \in DOMAIN sessions /\ now - issued[t].at <= TOKEN_TTL)
              => get_session_by_token(t).session = issued[t].sid
        /\ issued[t].sid \notin DOMAIN sessions
              => get_session_by_token(t).session = None
        /\ (names_completed(t) /\ elapsed_of(t) > TOKEN_TTL)
              => get_session_by_token(t).session = None

\* C8, witness: a token minted less than 1800 s ago is not-found, its session
\* and its entry of the token map swept by a create_session, while another
\* token resolves to its stored session.
C8_Witness ==
    /\ \E t \in DOMAIN issued :
          /\ now - issued[t].at < TOKEN_TTL
          /\ issued[t].sid \in Swept
          /\ t \notin DOMAIN tokens
          /\ get_session_by_token(t).session = None
    /\ \E t \in DOMAIN issued : get_session_by_token(t).session = issued[t].sid

\* C9: once more than 1800 s passed since a token was minted, a lookup of it
\* answers not-found, and removes its entry when the token map still has it.
C9_ExpiredLookupRemoves ==
    \A t \in DOMAIN issued :
        now - issued[t].at > TOKEN_TTL
            => /\ get_session_by_token(t).session = None
               /\ t \in DOMAIN tokens => get_session_by_token(t).drop

\* A create_session call returns a payment url.
create_session_returns ==
    create_session_demo \/ \E c \in Running, p \in BOOLEAN : create_session_stored(c, p)

\* C10, as stated: when a create_session call returns, no stored session was
\* created more than 7200 s ago.
C10_NoOldSessionAtReturn ==
    [][create_session_returns
          => \A sid \in DOMAIN sessions' :
                 ~session_expired(now' - sessions'[sid].created_at)]_vars

\* C10, amended: the sweep that opens every create_session call (line 70)
\* removes exactly the sessions created more than 7200 s ago, whatever their
\* status, so none is stored when the call goes on to the payment gateway.
C10_SweepRemovesOldSessions ==
    [][(create_session_demo \/ create_session_start)
          => /\ \A sid \in DOMAIN sessions' :
                    now - sessions'[sid].created_at <= cutoff
             /\ \A sid \in DOMAIN sessions :
                    now - sessions[sid].created_at <= cutoff
                        => sid \in DOMAIN sessions']_vars

\* C10, witness: a session that never completed (no token was ever minted)
\* was swept, and no stored session is older than 7200 s.
C10_Witness ==
    /\ Swept # {}
    /\ nextTok = 1
    /\ last.op = "create_session" /\ last.status = "created"
    /\ \A sid \in DOMAIN sessions : now - sessions[sid].created_at <= cutoff

\* C11: no entry of the token map names a session that the sweep removed
\* from the store.
C11_NoTokenOfSweptSession ==
    \A t \in DOMAIN tokens : tokens[t] \notin Swept

C13_UnverifiedStaysPending ==
    [][\A c \in Running :
          verify_session_unverified(c)
              => /\ last' = Response("verify_session", "pending", None)
                 /\ UNCHANGED <<sessions, tokens, issued, nextTok>>
                 /\ (c.sid \in DOMAIN sessions /\ sessions[c.sid].status = "pending")
                       => /\ ~demo_mode
                          /\ BagCardinality(calls') < MaxCalls
                          /\ c.sid \in DOMAIN sessions'
                          /\ ~already_completed(sessions'[c.sid])
                          /\ sessions'[c.sid].meshulam_process_id # None]_vars

\* C13, witness: verify_session answered pending, no call is suspended and
\* a stored session with a gateway process id is still pending, with no token.
C13_Witness ==
    /\ ~demo_mode
    /\ last = Response("verify_session", "pending", None)
    /\ calls = EmptyBag
    /\ \A sid \in DOMAIN sessions : sessions[sid].meshulam_process_id # None
    /\ \E sid \in DOMAIN sessions :
          /\ sessions[sid].status = "pending"
          /\ sessions[sid].pdf_token = None
          /\ TokensOf(sid) = {}

\* A handle_webhook call that does not report success for a stored session.
webhook_rejected_call ==
    \/ \E e \in SessionIds \cup {None}, ok \in BOOLEAN : handle_webhook_unknown(e, ok)
    \/ \E e \in SessionIds : handle_webhook_failure(e)
    \/ handle_webhook_malformed

\* C14: handle_webhook given a payload without a correlation id, with one
\* that names no stored session, or with a status other than success, returns
\* false and leaves the session store and the token map unchanged.
C14_RejectedWebhookReturnsFalse ==
    [][webhook_rejected_call
          => /\ last'.op = "handle_webhook"
             /\ last'.status = "false"
             /\ UNCHANGED <<sessions, tokens>>]_vars

\* C16: in demo mode one verify_session on a pending session completes it,
\* returns a token registered for it in the token map and demo_mode = true,
\* and suspends on no gateway call.
C16_DemoVerifyCompletes ==
    [][\A sid \in SessionIds :
          verify_session_demo(sid)
              => /\ demo_mode
                 /\ sessions'[sid].status = "completed"
                 /\ sessions'[sid].completed_at = now
                 /\ last'.op = "verify_session" /\ last'.status = "completed"
                 /\ last'.pdf_token # None
                 /\ last'.pdf_token \notin DOMAIN tokens
                 /\ last'.pdf_token \in DOMAIN tokens'
                 /\ tokens'[last'.pdf_token] = sid
                 /\ sessions'[sid].pdf_token = last'.pdf_token
                 /\ last'.demo_mode = "true"
                 /\ UNCHANGED calls]_vars

\* C16, witness: in demo mode verify_session answered completed with a token
\* that the token map holds for a completed session, flagged demo_mode = true.
C16_Witness ==
    /\ demo_mode
    /\ last.op = "verify_session" /\ last.status = "completed"
    /\ last.demo_mode = "true"
    /\ last.pdf_token \in DOMAIN tokens
    /\ tokens[last.pdf_token] \in DOMAIN sessions
    /\ sessions[tokens[last.pdf_token]].status = "completed"
    /\ sessions[tokens[last.pdf_token]].pdf_token = last.pdf_token

\* C17: every record returned by create_session and verify_session has a
\* demo_mode key, and it is true when the service runs in demo mode.
C17_EveryResponseFlagged ==
    (last.op \in {"create_session", "verify_session"} /\ last.status # "error")
        => /\ last.demo_mode # "absent"
           /\ demo_mode => last.demo_mode = "true"

\* The three fields of a stored session that a completion writes.
completion_of(store, sid) ==
    <<store[sid].status, store[sid].pdf_token, store[sid].completed_at>>

\* The rendering of verify_payment ends with a failure of the scan, of the
\* PDF rendering or of the email.
verify_payment_failure(c) ==
    verify_payment_render_failed(c) \/ verify_payment_rendered(c, FALSE)

\* C15 (under SpecPayment), as stated: when the scan, the rendering or the
\* email of verify_payment fails, the session keeps its status, token and
\* completed_at, the response carries the token verify_session returned, and
\* no PDF is cached for the session, so that a later call renders again.
C15_FailureLeavesNothingCached ==
    [][\A c \in Running :
          verify_payment_failure(c)
              => /\ UNCHANGED tokens
                 /\ last'.status = "completed" /\ last'.pdf_token = c.tok
                 /\ c.sid \in DOMAIN sessions
                       => /\ c.sid \in DOMAIN sessions'
                          /\ completion_of(sessions', c.sid) = completion_of(sessions, c.sid)
                          /\ ~sessions'[c.sid].pdf_bytes]_vars

\* C15 (under SpecPayment), amended: whatever the outcome of the rendering and
\* of the email, the session keeps its status, token and completed_at and the
\* response carries the token verify_session returned.  When the scan or the
\* rendering fails nothing is written, so a session without a cached PDF
\* still has none and a later verify or download call renders again.  The
\* email is sent after the PDF was cached: when it fails the stored session
\* holds the PDF, and a later verify call neither renders nor emails again.
C15_FailureKeepsCompletion ==
    [][\A c \in Running :
          /\ (verify_payment_failure(c) \/ verify_payment_rendered(c, TRUE))
                => /\ UNCHANGED tokens
                   /\ last'.status = "completed" /\ last'.pdf_token = c.tok
                   /\ DOMAIN sessions' = DOMAIN sessions
                   /\ c.sid \in DOMAIN sessions
                         => completion_of(sessions', c.sid) = completion_of(sessions, c.sid)
          /\ verify_payment_render_failed(c)
                => /\ UNCHANGED sessions
                   /\ needs_render(sessions, c.sid) => needs_render(sessions', c.sid)
          /\ verify_payment_rendered(c, FALSE)
                => /\ c.sid \in DOMAIN sessions => sessions'[c.sid].pdf_bytes
                   /\ ~needs_render(sessions', c.sid)]_vars

\* C15, witness: verify_payment returned the token of a completed session
\* after its rendering ended, no call is suspended, and the store holds a
\* completed session without a cached PDF next to one with a cached PDF.
C15_Witness ==
    /\ calls = EmptyBag
    /\ last.op = "verify_session" /\ last.status = "completed"
    /\ last.pdf_token \in DOMAIN tokens
    /\ \E sid \in DOMAIN sessions :
          /\ sessions[sid].status = "completed"
          /\ sessions[sid].pdf_token = last.pdf_token
          /\ ~sessions[sid].pdf_bytes
    /\ \E sid \in DOMAIN sessions :
          /\ sessions[sid].status = "completed"
          /\ sessions[sid].pdf_bytes

\* The score before the clamp.
raw_score == deduct_checks(deduct_violations(100, axe_results), playwright_results)

\* C18 (under SpecScore): for every list of violations and every list of
\* interactive checks, empty lists and violations without nodes included,
\* calculate_score returns an integer from 0 to 100, and so does the score
\* scan_url_sync computes.
C18_ScoreInRange ==
    /\ calculate_score(axe_results, playwright_results) \in 0..100
    /\ scan_url_sync_score(axe_results, playwright_results) \in 0..100
    /\ score # None => score \in 0..100

\* C18, witness: the deductions of a scan exceed 100 and its score is 0.
C18_Witness ==
    /\ raw_score < 0
    /\ score = 0
    /\ \E i \in DOMAIN axe_results : axe_results[i].nodes = 0

\* The list `seq` reordered by the permutation `p` of its indices.
reordered(seq, p) == [i \in DOMAIN seq |-> seq[p[i]]]

\* C19 (under SpecScore): every permutation of the violations and every
\* permutation of the interactive checks yields the same score.
C19_ScoreIgnoresOrder ==
    \A p \in Permutations(DOMAIN axe_results), q \in Permutations(DOMAIN playwright_results) :
        calculate_score(reordered(axe_results, p), reordered(playwright_results, q))
            = calculate_score(axe_results, playwright_results)

\* C19, witness: a scan scored strictly between 0 and 100 whose violations
\* and checks each differ from one of their reorderings, one of the
\* violations being without nodes.
C19_Witness ==
    /\ score # None /\ score > 0 /\ score < 100
    /\ \E p \in Permutations(DOMAIN axe_results) :
          reordered(axe_results, p) # axe_results
    /\ \E q \in Permutations(DOMAIN playwright_results) :
          reordered(playwright_results, q) # playwright_results
    /\ \E i \in DOMAIN axe_results : axe_results[i].nodes = 0
    /\ \E i \in DOMAIN axe_results : axe_results[i].nodes > 0

\* The weights of the reference formula.
reference_violation_weight ==
    [i \in Impacts |-> IF i = "critical" THEN 10 ELSE IF i = "serious" THEN 5
                       ELSE IF i = "moderate" THEN 2 ELSE 1]

reference_check_weight ==
    [i \in Impacts |-> IF i = "critical" THEN 15 ELSE IF i = "serious" THEN 10
                       ELSE IF i = "moderate" THEN 5 ELSE 2]

\* The reference formula: 100 minus the sum of the violations' deductions
\* minus the sum of the checks' deductions, clamped to [0, 100].
reference_score(violations, checks) ==
    LET v[i \in 0..Len(violations)] ==
            IF i = 0 THEN 0
            ELSE v[i - 1] + reference_violation_weight[violations[i].impact]
                              * (IF violations[i].nodes > 5 THEN 5 ELSE violations[i].nodes)
        c[i \in 0..Len(checks)] ==
            IF i = 0 THEN 0
            ELSE c[i - 1] + reference_check_weight[checks[i].severity]
        raw == 100 - (v[Len(violations)] + c[Len(checks)])
    IN  IF raw < 0 THEN 0 ELSE IF raw > 100 THEN 100 ELSE raw

\* Every finding of the scan carries one of the four severities.
known_severities ==
    /\ \A i \in DOMAIN axe_results : axe_results[i].impact \in Impacts
    /\ \A i \in DOMAIN playwright_results : playwright_results[i].severity \in Impacts

\* C20 (under SpecScore): for findings of the four severities calculate_score
\* equals the reference formula; for all findings scan_url_sync computes the
\* score calculate_score computes, and the score of the report is that score.
C20_ScoreIsReference ==
    /\ known_severities
          => calculate_score(axe_results, playwright_results)
                 = reference_score(axe_results, playwright_results)
    /\ scan_url_sync_score(axe_results, playwright_results)
           = calculate_score(axe_results, playwright_results)
    /\ score # None => score = calculate_score(axe_results, playwright_results)

\* C20, witness: a scan of findings of the four severities scored strictly
\* between 0 and 100, with a violation of more than 5 nodes and a check of
\* more than one instance.
C20_Witness ==
    /\ known_severities
    /\ score # None /\ score > 0 /\ score < 100
    /\ score = reference_score(axe_results, playwright_results)
    /\ \E i \in DOMAIN axe_results : axe_results[i].nodes > 5
    /\ \E i \in DOMAIN playwright_results : playwright_results[i].nodes_count > 1

\* The risk level of the assembled report, in the spelling of the decision
\* table: report["risk"]["level"], or report["legal_risk"]["level"] in upper
\* case.
report_level ==
    IF report.risk # "absent" THEN report.risk
    ELSE CASE report.legal_risk = "high" -> "HIGH"
           [] report.legal_risk = "medium" -> "MEDIUM"
           [] report.legal_risk = "low" -> "LOW"
           [] OTHER -> report.legal_risk

\* The sum of the instance counts of the findings of one severity: len(nodes)
\* of each violation, nodes_count of each interactive check.
RECURSIVE instances_of_violations(_, _)
instances_of_violations(vs, severity) ==
    IF vs = <<>>
    THEN 0
    ELSE (IF Head(vs).impact = severity THEN Head(vs).nodes ELSE 0)
             + instances_of_violations(Tail(vs), severity)

RECURSIVE instances_of_checks(_, _)
instances_of_checks(cs, severity) ==
    IF cs = <<>>
    THEN 0
    ELSE (IF Head(cs).severity = severity THEN Head(cs).nodes_count ELSE 0)
             + instances_of_checks(Tail(cs), severity)

critical_count ==
    instances_of_violations(axe_results, "critical")
        + instances_of_checks(playwright_results, "critical")

\* C21 (under SpecScore): a report assembled from findings whose critical
\* instances number at least 5 has the risk level CRITICAL, whatever its
\* score.
C21_CriticalFromFive ==
    (score # None /\ critical_count >= 5) => report_level = "CRITICAL"

\* The decision table below the CRITICAL row.
decision_table(critical, s) ==
    IF critical >= 3 \/ s < 40 THEN "HIGH"
    ELSE IF s < 70 THEN "MEDIUM"
    ELSE "LOW"

\* C22 (under SpecScore): a report assembled from findings with fewer than 5
\* critical instances has the risk level of the decision table: HIGH for 3 or
\* more critical instances or a score below 40, else MEDIUM for a score below
\* 70, else LOW.
C22_LevelFollowsTable ==
    (score # None /\ critical_count < 5)
        => report_level = decision_table(critical_count, score)

\* A severity with every value outside the four read as moderate.
as_moderate(severity) == IF severity \in Impacts THEN severity ELSE "moderate"

violations_as_moderate(vs) ==
    [i \in DOMAIN vs |-> [vs[i] EXCEPT !.impact = as_moderate(@)]]

checks_as_moderate(cs) ==
    [i \in DOMAIN cs |-> [cs[i] EXCEPT !.severity = as_moderate(@)]]

\* The report the producer of the present report assembles from other findings.
report_of(violations, checks) ==
    IF report.legal_risk # "absent"
    THEN scan_url_report(violations, checks)
    ELSE scan_url_sync_report(violations, checks)

\* C23 (under SpecScore): the score, the summary counts and the risk level of
\* a report are those of the same findings with every severity outside
\* critical, serious, moderate, minor replaced by moderate.
C23_UnknownCountsAsModerate ==
    score # None =>
        /\ score = calculate_score(violations_as_moderate(axe_results),
                                   checks_as_moderate(playwright_results))
        /\ report = report_of(violations_as_moderate(axe_results),
                              checks_as_moderate(playwright_results))

\* The violations with a count of zero nodes read as one instance.
violations_coerced(vs) ==
    [i \in DOMAIN vs |-> [vs[i] EXCEPT !.nodes = IF @ = 0 THEN 1 ELSE @]]

\* C24 (under SpecScore): the score, the summary counts and the risk level of
\* a report are those of the same findings with every violation of zero
\* nodes counted as a violation of one node.
C24_ZeroNodesCountOnce ==
    score # None =>
        /\ score = calculate_score(violations_coerced(axe_results), playwright_results)
        /\ report = report_of(violations_coerced(axe_results), playwright_results)

\* C30 (under SpecScore): the risk level shown in the email and on the PDF
\* cover of a sent report is the level assess_legal_risk computed for it.
C30_DeliveredLevelIsComputed ==
    delivered # NoDelivery =>
        /\ delivered.email = report_level
        /\ delivered.cover = report_level

\* C25 (under SpecScan): a step in which an interactive check raises leaves
\* the scan on its way to the next check or to the scoring, with the
\* findings as they were and no error pending; and a scan that has left its
\* checks has run every check and holds exactly one finding for each check
\* that found an issue, none of them for a check that raised.
C25_CheckFailureIsSwallowed ==
    /\ [][scan'.raised # scan.raised
             => /\ scan'.pc \in {"checks", "calculate_score"}
                /\ scan'.exit = "none"
                /\ playwright_results' = playwright_results]_vars
    /\ [](scan.pc = "calculate_score"
             => /\ scan.ran = {check_keys(scan.fn)[i] : i \in DOMAIN check_keys(scan.fn)}
                /\ Len(playwright_results) = Cardinality(scan.found)
                /\ scan.found \cap scan.raised = {})

becomes_completed(sid) ==
    /\ sid \in DOMAIN sessions
    /\ sessions[sid].status # "completed"
    /\ sid \in DOMAIN sessions'
    /\ sessions'[sid].status = "completed"

\* C27: without demo mode a stored session becomes COMPLETED only in a step
\* of a verify_session whose gateway query for the session's process id
\* reported success, or of a handle_webhook that names the session with the
\* success status; a session without a process id is never completed by
\* verify_session.
C27_CompletedOnlyOnGatewaySuccess ==
    [][\A sid \in SessionIds :
          (~demo_mode /\ becomes_completed(sid))
              => \/ /\ sessions[sid].meshulam_process_id # None
                    /\ \E c \in Running : c.sid = sid /\ verify_session_verified(c)
                 \/ handle_webhook_success(sid)]_vars

\* C27, witness: without demo mode, a session with a process id stands
\* completed next to a pending session without one, for which verify_session
\* has just answered pending.
C27_Witness ==
    /\ ~demo_mode
    /\ \E sid \in DOMAIN sessions :
          /\ sessions[sid].status = "completed"
          /\ sessions[sid].meshulam_process_id # None
    /\ \E sid \in DOMAIN sessions :
          /\ sessions[sid].status = "pending"
          /\ sessions[sid].meshulam_process_id = None
    /\ last = Response("verify_session", "pending", None)

\* C28: every entry of the token map whose session is stored names a
\* COMPLETED session whose pdf_token is that token; so no two tokens of the
\* map name the same stored session.
C28_TokenMapMatchesSessions ==
    /\ \A tok \in DOMAIN tokens :
          tokens[tok] \in DOMAIN sessions
              => /\ sessions[tokens[tok]].status = "completed"
                 /\ sessions[tokens[tok]].pdf_token = tok
    /\ \A sid \in DOMAIN sessions : Cardinality(TokensOf(sid)) <= 1

\* A verify_session call on `sid` that answers completed with a token.
verify_session_completed(sid) ==
    \/ verify_session_again(sid)
    \/ verify_session_demo(sid)
    \/ \E c \in Running : c.sid = sid /\ verify_session_verified(c)

\* At the moment the step ends, get_session_by_token resolves the token of
\* the answer to the session `sid`.
resolves_after(sid) == (get_session_by_token(last.pdf_token).session = sid)'

\* C29, as stated: whenever verify_session answers completed with a
\* pdf_token for a stored session, get_session_by_token resolves that token
\* at that moment: it is in the token map and within its 30 minutes.
C29_NeverHandsOutDeadToken ==
    [][\A sid \in SessionIds :
          (verify_session_completed(sid) /\ sid \in DOMAIN sessions')
              => resolves_after(sid)]_vars

\* C29, amended: whenever verify_session answers completed with a pdf_token
\* for a stored session, the token is the session's pdf_token, and
\* get_session_by_token resolves it at that moment if no more than TOKEN_TTL
\* seconds have passed since the session's completed_at.
C29_HandsOutLiveTokenWithinWindow ==
    [][\A sid \in SessionIds :
          (verify_session_completed(sid) /\ sid \in DOMAIN sessions')
              => /\ last'.pdf_token = sessions'[sid].pdf_token
                 /\ now - sessions'[sid].completed_at <= TOKEN_TTL
                        => resolves_after(sid)]_vars

\* C29, witness: verify_session has answered completed with the token of a
\* stored session that only handle_webhook can have completed (no demo mode,
\* no process id), completed exactly TOKEN_TTL seconds ago, and the token
\* resolves to that session.
C29_Witness ==
    /\ ~demo_mode
    /\ last.op = "verify_session" /\ last.status = "completed"
    /\ last.pdf_token \in DOMAIN tokens
    /\ tokens[last.pdf_token] \in DOMAIN sessions
    /\ sessions[tokens[last.pdf_token]].pdf_token = last.pdf_token
    /\ sessions[tokens[last.pdf_token]].meshulam_process_id = None
    /\ now - sessions[tokens[last.pdf_token]].completed_at = TOKEN_TTL
    /\ get_session_by_token(last.pdf_token).session = tokens[last.pdf_token]

====
